---- MODULE Spec2Model ----
(***************************************************************************)
(* Escrow settlement engine of src/lib/cron/escrow-auto-release.ts: one    *)
(* escrow transaction document in the document store, the payment rail's   *)
(* counters, the audit-event collection, and the server actions that run   *)
(* against them.  Every await of a server action (a store read, a store    *)
(* write, a payment-rail call) is one atomic step, so that concurrent      *)
(* calls interleave exactly where the code can be interleaved.             *)
(***************************************************************************)
EXTENDS Integers, Sequences, FiniteSets, TLC

\* ------------------------------------------------------------------ bounds
NProcs == 2
MaxTime == 3
MaxOps == 4
MaxSeqOps == 5
MaxEvalOps == 2
MaxLiveOps == 3
MaxFailures == 1
MaxConds == 2
MaxCreateOps == 3
MaxDisputeOps == 4
MaxCondOps == 2
MaxOverLimit == 1
\* the amount (in cents) of a partial refund
PartialRefund == 25
\* the amount (in cents) of the transaction the calls run against
DefaultAmount == 45000
\* the platform config document's defaultAutoReleaseDays, in clock units
ConfigAutoReleaseDays == 3

\* ------------------------------------------------------- program constants
\* digital_goods: autoReleaseDays: 2
DigitalAutoReleaseDays == 2
\* an optional field that is not set (undefined)
Absent == -1
\* getPlatformConfig's defaults: percentages in tenths of a percent
PlatformFeePerMille == 25
PlatformFeeFixed == 30
StripeFeePerMille == 29
StripeFeeFixed == 30
MinTransactionAmount == 100
MaxTransactionAmount == 1000000

\* Query.limit(100) of the sweep's listDocuments
QueryLimit == 100

Procs == 1..NProcs

ItemTypes == {"physical_goods", "digital_goods", "service", "subscription"}

\* -------------------------------------------------------------------- fees
\* data.amount values a caller may pass to createEscrowTransaction
Amounts ==
  { 50, MinTransactionAmount, 7500, DefaultAmount, MaxTransactionAmount,
    MaxTransactionAmount + 1 }

\* The real number amount * perMille / 1000 + fixed rounded half up.
ExactRound(amount, perMille, fixed) ==
  ((amount * perMille + 500) \div 1000) + fixed

\* amount * (pct / 100) + fixed is computed in IEEE-754 doubles.  Off an
\* exact half the double rounds as the real number does.  Where the real
\* number is an exact half the double is either that half or the double
\* next below it; of Amounts it is below for 7500 at 2.9 percent:
\* 7500 * (2.9 / 100) + 30 = 247.49999999999997.
DoubleBelowHalf(amount, perMille) ==
  /\ (amount * perMille) % 1000 = 500
  /\ << amount, perMille >> \in { << 7500, StripeFeePerMille >> }

\* Math.round(amount * (pct / 100) + fixed)
FeeRoundedExactly(amount, perMille, fixed) == ExactRound(amount, perMille, fixed)
Fee(amount, perMille, fixed) ==
  IF DoubleBelowHalf(amount, perMille)
    THEN ((amount * perMille) \div 1000) + fixed
    ELSE ExactRound(amount, perMille, fixed)

platformFee(amount) == Fee(amount, PlatformFeePerMille, PlatformFeeFixed)
stripeFee(amount) == Fee(amount, StripeFeePerMille, StripeFeeFixed)
sellerAmount(amount) == amount - platformFee(amount) - stripeFee(amount)

\* ------------------------------------------------------------- conditions
\* One SettlementCondition.  config is flattened into the record; a config
\* field the condition does not carry is Absent (numbers) or FALSE (flags).
Cond(type, required, autoReleaseAt, trackingNumber, deliveryConfirmed, milestones, buyerSigned, sellerSigned) ==
  [type |-> type, required |-> required, isMet |-> FALSE, metAt |-> Absent,
   autoReleaseAt |-> autoReleaseAt, inspectionDeadline |-> Absent,
   trackingNumber |-> trackingNumber,
   deliveryConfirmed |-> deliveryConfirmed, milestones |-> milestones,
   buyerSigned |-> buyerSigned, sellerSigned |-> sellerSigned]

\* milestones: "none" (no list), "open" (some milestone not completed),
\* "complete" (every milestone completed)
TrackingCond == Cond("tracking_confirmation", FALSE, Absent, FALSE, FALSE, "none", FALSE, FALSE)
ConfirmCond == Cond("buyer_confirmation", FALSE, Absent, FALSE, FALSE, "none", FALSE, FALSE)
TimeCond(at) == Cond("time_based", FALSE, at, FALSE, FALSE, "none", FALSE, FALSE)
MilestoneCond(m) == Cond("milestone_based", FALSE, Absent, FALSE, FALSE, m, FALSE, FALSE)
SignatureCond(b, s) == Cond("dual_signature", FALSE, Absent, FALSE, FALSE, "none", b, s)
DeliveryCond == Cond("delivery_confirmation", FALSE, Absent, FALSE, FALSE, "none", FALSE, FALSE)
InspectionCond(d) == [Cond("inspection_period", FALSE, Absent, FALSE, FALSE, "none", FALSE, FALSE) EXCEPT !.inspectionDeadline = d]
CustomTypeCond == Cond("custom", FALSE, Absent, FALSE, FALSE, "none", FALSE, FALSE)

getDefaultConditionsForItemType(itemType, t) ==
  CASE itemType = "physical_goods" ->
         << TrackingCond, ConfirmCond, TimeCond(t + ConfigAutoReleaseDays) >>
    [] itemType = "digital_goods" ->
         << ConfirmCond, TimeCond(t + DigitalAutoReleaseDays) >>
    [] itemType = "service" ->
         << MilestoneCond("open"), ConfirmCond >>
    [] OTHER ->
         << TimeCond(t + ConfigAutoReleaseDays) >>

\* customConditions a caller may pass to createEscrowTransaction: each with
\* or without required, isMet forced to FALSE by the creation code.
CustomShapes ==
  { [c EXCEPT !.required = r] :
      c \in { ConfirmCond, TimeCond(1), MilestoneCond("complete"),
              SignatureCond(TRUE, FALSE) },
      r \in BOOLEAN }

CustomLists ==
  UNION { [1..n -> CustomShapes] : n \in 0..MaxConds }

\* time_based: now >= releaseDate
TimeBasedMetStrict(t, deadline) == t > deadline
TimeBasedMet(t, deadline) == t >= deadline

\* inspection_period: now >= deadline && escrow.status !== "disputed"
InspectionMetWhileDisputed(t, deadline, status) == t >= deadline
InspectionMet(t, deadline, status) == t >= deadline /\ status # "disputed"

\* evaluateCondition(condition, escrow) at clock value t; escrow is the
\* document snapshot the caller read.
evaluateCondition(c, escrow, t) ==
  LET met ==
        CASE c.type = "tracking_confirmation" ->
               c.trackingNumber /\ c.deliveryConfirmed
          [] c.type = "time_based" ->
               IF c.autoReleaseAt # Absent
                 THEN TimeBasedMet(t, c.autoReleaseAt)
                 ELSE c.isMet
          [] c.type = "buyer_confirmation" ->
               escrow.status = "confirmed"
          [] c.type = "delivery_confirmation" ->
               IF escrow.shipped THEN escrow.actualDelivery ELSE c.isMet
          [] c.type = "milestone_based" ->
               IF c.milestones # "none"
                 THEN c.milestones = "complete"
                 ELSE c.isMet
          [] c.type = "inspection_period" ->
               IF c.inspectionDeadline # Absent
                 THEN InspectionMet(t, c.inspectionDeadline, escrow.status)
                 ELSE c.isMet
          [] c.type = "dual_signature" ->
               c.buyerSigned /\ c.sellerSigned
          [] OTHER -> FALSE
  IN [c EXCEPT !.isMet = met,
               !.metAt = IF met /\ c.metAt = Absent THEN t ELSE c.metAt]

EvaluateAll(conds, escrow, t) ==
  [i \in 1..Len(conds) |-> evaluateCondition(conds[i], escrow, t)]

\* const allMet = evaluatedConditions.every((c) => c.isMet)
AnyMet(conds) == \E i \in 1..Len(conds) : conds[i].isMet
AllMet(conds) == \A i \in 1..Len(conds) : conds[i].isMet

\* if (allMet && !["released","refunded","disputed"].includes(escrow.status))
TriggersRelease(allMet, status) ==
  allMet /\ status \notin {"released", "refunded", "disputed"}

\* releaseFundsToSeller's two guards, in order: "" when both pass
ReleaseRefusalNoStatusGate(escrow) ==
  IF ~escrow.allConditionsMet THEN "not_met" ELSE ""
ReleaseRefusalNoConditionsGate(escrow) ==
  IF escrow.status \in {"released", "refunded"} THEN "already_done" ELSE ""
ReleaseRefusal(escrow) ==
  IF ~escrow.allConditionsMet THEN "not_met"
  ELSE IF escrow.status \in {"released", "refunded"} THEN "already_done"
  ELSE ""

\* refundToBuyer's guard
RefundRefusal(escrow) ==
  IF escrow.status \in {"refunded", "released"} THEN "already_done" ELSE ""

\* ------------------------------------------------------------------ state
VARIABLES
  now,          \* the clock (new Date())
  tx,           \* the escrow transaction document
  events,       \* number of documents in the escrow-events collection
  rail,         \* the payment rail: operations it has executed
  proc,         \* each concurrent server-action call: position and locals
  opsLeft,      \* calls that may still be started
  failuresLeft  \* store / rail calls that may still throw

vars == << now, tx, events, rail, proc, opsLeft, failuresLeft >>

\* the document createEscrowTransaction stores for data.amount = amount
NewDocument(amount, conds) ==
  [status |-> "pending_payment",
   hist |-> << "pending_payment" >>,
   conds |-> conds,
   allConditionsMet |-> FALSE,
   amount |-> amount,
   platformFee |-> platformFee(amount),
   sellerAmount |-> sellerAmount(amount),
   disputePeriodEndsAt |-> Absent,
   chargeId |-> Absent,
   transferId |-> Absent,
   payoutId |-> Absent,
   shipped |-> FALSE,
   actualDelivery |-> FALSE]

NewTransaction(conds) == NewDocument(DefaultAmount, conds)

\* the store before createEscrowTransaction: no document
NoDocument == [NewDocument(0, << >>) EXCEPT !.status = "none", !.hist = << >>]

\* a call's locals: the document fields it read (status, hist), the
\* conditions it evaluated or updated, the rail ids it obtained, and the
\* sweep's position: i in activeStatuses and, of the documents listed for
\* that status, whether the transaction (txListed) and how many other
\* transactions (left) are still to be processed; the refundAmount a refund
\* was called with (Absent: none) and its amountToRefund
NoLocals ==
  [status |-> "", hist |-> << >>, conds |-> << >>, allMet |-> FALSE,
   transferId |-> Absent, payoutId |-> Absent, i |-> 0,
   left |-> 0, txListed |-> FALSE, refundAmount |-> Absent, amountToRefund |-> 0]

\* const results = {processed: 0, released: 0, errors: 0, details: []};
\* of details, the number of its "error" entries
NoResults == [processed |-> 0, released |-> 0, errors |-> 0, errorDetails |-> 0]

\* what a sweep went through: the transactions in an active status when it
\* queried that status (active), the documents its queries returned
\* (listed), and the transactions whose evaluation threw (failed)
NoneObserved == [active |-> 0, listed |-> 0, failed |-> 0]

\* the request a cron route call came with: whether process.env.CRON_SECRET
\* is set, and its Authorization header: "none", "other" or "secret"
\* (exactly `Bearer ${cronSecret}`)
NoRequest == [configured |-> FALSE, header |-> "none"]

\* a call: the server action op, the caller's identity actor (of the
\* actions that check it), its position pc, its locals l and, once
\* returned, its result: res and, of an evaluation, allConditionsMet
\* (rAllMet), released (rReleased) and the unmet conditions (rUnmet), of a
\* sweep its results; of a call through the cron route, its request
IdleProc ==
  [op |-> "none", actor |-> "none", pc |-> "idle", res |-> "none", rAllMet |-> FALSE,
   rReleased |-> FALSE, rUnmet |-> {}, l |-> NoLocals,
   results |-> NoResults, observed |-> NoneObserved, request |-> NoRequest]

\* the rail before any call: intents created, captures, transfers, payouts
\* and refunds executed, and the amount refunded in all
NoRail ==
  [intents |-> 0, captures |-> 0, transfers |-> 0, payouts |-> 0, refunds |-> 0,
   refunded |-> 0]

\* the state after createEscrowTransaction created a transaction with one
\* of condLists and, beside the module, one of deadlines was stored as its
\* disputePeriodEndsAt
InitFrom(condLists, deadlines, ops, fails) ==
  /\ now = 0
  /\ \E conds \in condLists, d \in deadlines :
       tx = [NewTransaction(conds) EXCEPT !.disputePeriodEndsAt = d]
  /\ events = 1
  /\ rail = [NoRail EXCEPT !.intents = 1]
  /\ proc = [p \in Procs |-> IdleProc]
  /\ opsLeft = ops
  /\ failuresLeft = fails

\* a creation that stored a dispute-period deadline of 1 with the document
InitWithDisputePeriod(condLists, ops, fails) == InitFrom(condLists, {1}, ops, fails)

\* createEscrowTransaction's document has no disputePeriodEndsAt
InitWith(condLists, ops, fails) == InitFrom(condLists, {Absent}, ops, fails)

DefaultLists == { getDefaultConditionsForItemType(it, 0) : it \in ItemTypes }

\* ---------------------------------------------------------- control flow
CanFail == failuresLeft > 0

NoneDone == \A q \in Procs : proc[q].pc # "done"

\* call p is at position pc and no returned call is waiting to be received
At(p, pc) == proc[p].pc = pc /\ NoneDone

\* a store or rail call that does not throw, or, within the failure budget,
\* one that does
Outcome(ok) ==
  /\ ok \/ CanFail
  /\ failuresLeft' = IF ok THEN failuresLeft ELSE failuresLeft - 1

\* a server action returns: the call's locals are gone, its result is
\* handed to the caller (pc "done") before anything else happens
Ret(q, res) == [q EXCEPT !.pc = "done", !.res = res, !.l = NoLocals]

Goto(q, pc) == [q EXCEPT !.pc = pc]

\* the sweep that queries only the statuses of a shipment under way
ShippedStatuses == << "shipped", "in_transit", "delivered", "confirmed" >>

\* const activeStatuses = [...]
ActiveStatuses ==
  << "payment_received", "shipped", "in_transit", "delivered", "confirmed" >>

\* unmetConditions: the conditions of the evaluated list that are not met
Unmet(conds) == { i \in 1..Len(conds) : ~conds[i].isMet }

\* for (const escrow of escrows.documents): the sweep goes on to the next
\* listed document, after the last one to the next status query, after the
\* last status it returns its results
SweepOn(q) ==
  IF q.l.left > 0 \/ q.l.txListed
    THEN Goto(q, "sw_docs")
    ELSE IF q.l.i < Len(ActiveStatuses)
           THEN [q EXCEPT !.pc = "sw_list", !.l = [NoLocals EXCEPT !.i = q.l.i + 1]]
           ELSE Ret(q, "ok")

\* the evaluation of a transaction the sweep listed threw (inside
\* evaluateSettlementConditions or the release it called)
SweepFailed(q) ==
  IF q.op = "sweep" THEN [q EXCEPT !.observed.failed = @ + 1] ELSE q

\* evaluateSettlementConditions returns {allConditionsMet, unmetConditions,
\* released}; the callers markAsShipped and confirmReceipt drop it and
\* return success; the sweep counts a release and goes on
RetEval(q, allMet, released) ==
  CASE q.op = "evaluate" ->
         [Ret(q, "ok") EXCEPT !.rAllMet = allMet, !.rReleased = released,
                              !.rUnmet = Unmet(q.l.conds)]
    [] q.op = "sweep" ->
         SweepOn([q EXCEPT !.l = [NoLocals EXCEPT !.i = q.l.i, !.left = q.l.left],
                           !.results.released = @ + IF released THEN 1 ELSE 0])
    [] OTHER -> Ret(q, "ok")

\* the catch of evaluateSettlementConditions rethrowing to a caller without
\* a catch of its own
RetEvalThrown(q) == Ret(q, "thrown")

\* evaluateSettlementConditions' catch: {allConditionsMet: false, unmet: []}
RetEvalCaught(q) ==
  IF q.op = "evaluate" THEN Ret(q, "caught")
                       ELSE RetEval(SweepFailed(q), FALSE, FALSE)

\* releaseFundsToSeller returns {success}; called from the evaluation,
\* released = result.success
RetRelease(q, res) ==
  IF q.op = "release"
    THEN Ret(q, res)
    ELSE RetEval(IF res = "error" THEN SweepFailed(q) ELSE q, q.l.allMet, res = "ok")

SetProc(p, q) == proc' = [proc EXCEPT ![p] = q]

\* logEscrowEvent: one document created, unless the write throws (swallowed)
LogEvent(logged) ==
  /\ Outcome(logged)
  /\ events' = IF logged THEN events + 1 ELSE events

\* statusHistory.push({status, timestamp, triggeredBy, note}) on the history
\* the call parsed from the document it read
PushNothing(hist, status) == hist
Push(hist, status) == Append(hist, status)

\* a new call of server action op: its first step is its getDocument
Called(p, op) ==
  /\ At(p, "idle")
  /\ tx.status # "none"
  /\ opsLeft > 0
  /\ opsLeft' = opsLeft - 1

New(op) == [IdleProc EXCEPT !.op = op]

NewBy(op, actor) == [New(op) EXCEPT !.actor = actor]

\* the caller receives the result of a returned call
Exit(p) ==
  /\ proc[p].pc = "done"
  /\ SetProc(p, IdleProc)
  /\ UNCHANGED << now, tx, events, rail, opsLeft, failuresLeft >>

Tick ==
  /\ NoneDone
  /\ now < MaxTime
  /\ now' = now + 1
  /\ UNCHANGED << tx, events, rail, proc, opsLeft, failuresLeft >>

\* -------------------------------------------- createEscrowTransaction
\* conditions = customConditions with isMet: false, or the item type's
\* defaults computed at the time of the call
CreateCustomLists == { << >>, << [ConfirmCond EXCEPT !.required = TRUE] >> }

CreateConditions(t) ==
  { getDefaultConditionsForItemType(it, t) : it \in ItemTypes }
    \cup CreateCustomLists

\* One call, from the seller-account query to the returned transaction or
\* null.  outcome "early": the account query, the config query or
\* paymentIntents.create throws; "unstored": createDocument throws after
\* the payment intent was created; "unlogged": the event write throws.
createEscrowTransaction(p, amount, conds, sellerVerified, outcome) ==
  /\ At(p, "idle")
  /\ tx.status = "none"
  /\ opsLeft > 0
  /\ opsLeft' = opsLeft - 1
  /\ Outcome(outcome = "ok")
  /\ IF ~sellerVerified \/ outcome = "early"
       THEN /\ sellerVerified => outcome = "early"
            /\ ~sellerVerified => outcome = "ok"
            /\ UNCHANGED << tx, events, rail >>
            /\ SetProc(p, Ret(New("create"), "null"))
       ELSE /\ rail' = [rail EXCEPT !.intents = @ + 1]
            /\ tx' = IF outcome = "unstored" THEN tx ELSE NewDocument(amount, conds)
            /\ events' = IF outcome = "ok" THEN events + 1 ELSE events
            /\ SetProc(p, Ret(New("create"),
                              IF outcome = "unstored" THEN "null" ELSE "ok"))
  /\ UNCHANGED now

\* ----------------------------------------------- captureEscrowPayment
CaptureRefusal(escrow) ==
  IF escrow.status # "pending_payment" THEN "invalid_state" ELSE ""

captureRead(p) ==
  /\ Called(p, "capture")
  /\ SetProc(p, IF CaptureRefusal(tx) # ""
                  THEN Ret(New("capture"), CaptureRefusal(tx))
                  ELSE Goto([New("capture") EXCEPT !.l.hist = tx.hist], "cap_rail"))
  /\ UNCHANGED << now, tx, events, rail, failuresLeft >>

\* stripe.paymentIntents.confirm, then stripe.paymentIntents.capture: the
\* rail captures the hold of a payment intent once and rejects (throws on)
\* a second confirm/capture of it
captureRail(p) ==
  /\ At(p, "cap_rail")
  /\ IF rail.captures = 0
       THEN /\ rail' = [rail EXCEPT !.captures = 1]
            /\ SetProc(p, Goto(proc[p], "cap_write"))
       ELSE /\ rail' = rail
            /\ SetProc(p, Ret(proc[p], "error"))
  /\ UNCHANGED << now, tx, events, opsLeft, failuresLeft >>

\* stripeChargeId: captured.latest_charge, the one charge of the payment intent
captureWrite(p, logged) ==
  /\ At(p, "cap_write")
  /\ tx' = [tx EXCEPT !.status = "payment_received",
                      !.hist = Push(proc[p].l.hist, "payment_received"),
                      !.chargeId = 1]
  /\ LogEvent(logged)
  /\ SetProc(p, Ret(proc[p], "ok"))
  /\ UNCHANGED << now, rail, opsLeft >>

\* ------------------------------------------------------- markAsShipped
\* the caller's identity, against the transaction's buyerId and sellerId
Actors == {"buyer", "seller"}


\* markAsShipped's guards, in order: "" when both pass
ShipRefusal(escrow, actor) ==
  IF actor # "seller" THEN "unauthorized"
  ELSE IF escrow.status # "payment_received" THEN "invalid_state"
  ELSE ""

shipRead(p, actor) ==
  /\ Called(p, "ship")
  /\ SetProc(p, IF ShipRefusal(tx, actor) # ""
                  THEN Ret(NewBy("ship", actor), ShipRefusal(tx, actor))
                  ELSE Goto([NewBy("ship", actor) EXCEPT !.l.hist = tx.hist], "ship_write"))
  /\ UNCHANGED << now, tx, events, rail, failuresLeft >>

shipWrite(p) ==
  /\ At(p, "ship_write")
  /\ tx' = [tx EXCEPT !.status = "shipped",
                      !.hist = Push(proc[p].l.hist, "shipped"),
                      !.shipped = TRUE]
  /\ SetProc(p, Goto([proc[p] EXCEPT !.l.hist = << >>], "uc_read"))
  /\ UNCHANGED << now, events, rail, opsLeft, failuresLeft >>

\* ------------------------------------------------------ confirmReceipt
\* confirmReceipt's guards, in order
ConfirmRefusalAnyActor(escrow, actor) ==
  IF escrow.status \notin {"shipped", "in_transit", "delivered"}
    THEN "invalid_state" ELSE ""
ConfirmRefusal(escrow, actor) ==
  IF actor # "buyer" THEN "unauthorized"
  ELSE IF escrow.status \notin {"shipped", "in_transit", "delivered"}
    THEN "invalid_state"
  ELSE ""

confirmRead(p, actor) ==
  /\ Called(p, "confirm")
  /\ SetProc(p, IF ConfirmRefusal(tx, actor) # ""
                  THEN Ret(NewBy("confirm", actor), ConfirmRefusal(tx, actor))
                  ELSE Goto([NewBy("confirm", actor) EXCEPT !.l.hist = tx.hist], "con_write"))
  /\ UNCHANGED << now, tx, events, rail, failuresLeft >>

confirmWrite(p) ==
  /\ At(p, "con_write")
  /\ tx' = [tx EXCEPT !.status = "confirmed",
                      !.hist = Push(proc[p].l.hist, "confirmed")]
  /\ SetProc(p, Goto([proc[p] EXCEPT !.l.hist = << >>], "uc_read"))
  /\ UNCHANGED << now, events, rail, opsLeft, failuresLeft >>

\* ----------------------------------------------------- updateCondition
\* markAsShipped: ("tracking_confirmation", {trackingNumber, carrierName});
\* confirmReceipt: ("buyer_confirmation", {confirmationRequired: true})
UpdatedType(op) ==
  IF op = "ship" THEN "tracking_confirmation" ELSE "buyer_confirmation"

\* conditions.findIndex((c) => c.type === conditionType); 0 when none
FindIndex(conds, type) ==
  IF \E i \in 1..Len(conds) : conds[i].type = type
    THEN CHOOSE i \in 1..Len(conds) :
           /\ conds[i].type = type
           /\ \A j \in 1..(i - 1) : conds[j].type # type
    ELSE 0

\* config = {...config, ...updates}
MergeConfig(c, op) ==
  IF op = "ship" THEN [c EXCEPT !.trackingNumber = TRUE] ELSE c

\* the read of updateCondition; without a condition of the type nothing is
\* written and the caller goes on to log its event
updateConditionRead(p, logged) ==
  /\ At(p, "uc_read")
  /\ LET i == FindIndex(tx.conds, UpdatedType(proc[p].op))
     IN IF i > 0
          THEN /\ SetProc(p, Goto([proc[p] EXCEPT !.l.conds =
                       [tx.conds EXCEPT ![i] = MergeConfig(@, proc[p].op)]],
                     "uc_write"))
               /\ logged
               /\ UNCHANGED << events, failuresLeft >>
          ELSE /\ SetProc(p, Goto(proc[p], "ev_read"))
               /\ LogEvent(logged)
  /\ UNCHANGED << now, tx, rail, opsLeft >>

updateConditionWrite(p, logged) ==
  /\ At(p, "uc_write")
  /\ tx' = [tx EXCEPT !.conds = proc[p].l.conds]
  /\ LogEvent(logged)
  /\ SetProc(p, Goto([proc[p] EXCEPT !.l.conds = << >>], "ev_read"))
  /\ UNCHANGED << now, rail, opsLeft >>

\* -------------------------------------------------------- openDispute
\* if (escrow.disputePeriodEndsAt) { if (now > deadline) ... }
DisputeNeverExpires(t, deadline) == FALSE
DisputeExpired(t, deadline) == deadline # Absent /\ t > deadline

\* openDispute's guards, in order
DisputeRefusal(escrow, actor, t) ==
  IF actor # "buyer" THEN "unauthorized"
  ELSE IF escrow.status \notin {"shipped", "in_transit", "delivered", "confirmed"}
    THEN "invalid_state"
  ELSE IF DisputeExpired(t, escrow.disputePeriodEndsAt) THEN "expired"
  ELSE ""

disputeRead(p, actor) ==
  /\ Called(p, "dispute")
  /\ SetProc(p, IF DisputeRefusal(tx, actor, now) # ""
                  THEN Ret(NewBy("dispute", actor), DisputeRefusal(tx, actor, now))
                  ELSE Goto([NewBy("dispute", actor) EXCEPT !.l.hist = tx.hist], "dis_write"))
  /\ UNCHANGED << now, tx, events, rail, failuresLeft >>

disputeWrite(p, logged) ==
  /\ At(p, "dis_write")
  /\ tx' = [tx EXCEPT !.status = "disputed",
                      !.hist = Push(proc[p].l.hist, "disputed")]
  /\ LogEvent(logged)
  /\ SetProc(p, Ret(proc[p], "ok"))
  /\ UNCHANGED << now, rail, opsLeft >>

\* ------------------------------------- evaluateSettlementConditions
\* getDocument, then (synchronously) the evaluation of every condition and
\* the aggregation; q is the call's record before the read
EvaluationRead(q) ==
  LET evaluated == EvaluateAll(tx.conds, tx, now)
  IN Goto([q EXCEPT !.l.status = tx.status,
                    !.l.conds = evaluated,
                    !.l.allMet = AllMet(evaluated)],
          "ev_write")

\* called as a server action (evaluate now, or the scheduler's sweep)
evaluateCall(p) ==
  /\ Called(p, "evaluate")
  /\ SetProc(p, EvaluationRead(New("evaluate")))
  /\ UNCHANGED << now, tx, events, rail, failuresLeft >>

\* called at the end of markAsShipped and confirmReceipt
evaluateRead(p) ==
  /\ At(p, "ev_read")
  /\ SetProc(p, EvaluationRead(proc[p]))
  /\ UNCHANGED << now, tx, events, rail, opsLeft, failuresLeft >>

\* updateDocument({settlementConditionsJSON, allConditionsMet}), then the
\* release decision on the status read before
evaluateWrite(p) ==
  /\ At(p, "ev_write")
  /\ tx' = [tx EXCEPT !.conds = proc[p].l.conds,
                      !.allConditionsMet = proc[p].l.allMet]
  /\ SetProc(p, IF TriggersRelease(proc[p].l.allMet, proc[p].l.status)
                  THEN Goto([proc[p] EXCEPT !.l.status = ""], "rel_read")
                  ELSE RetEval(proc[p], proc[p].l.allMet, FALSE))
  /\ UNCHANGED << now, events, rail, opsLeft, failuresLeft >>

\* ---------------------------------------------- releaseFundsToSeller
ReleaseRead(q) ==
  IF ReleaseRefusal(tx) # ""
    THEN RetRelease(q, ReleaseRefusal(tx))
    ELSE Goto([q EXCEPT !.l.hist = tx.hist], "rel_transfer")

\* called as a server action (admin release)
releaseCall(p) ==
  /\ Called(p, "release")
  /\ SetProc(p, ReleaseRead(New("release")))
  /\ UNCHANGED << now, tx, events, rail, failuresLeft >>

\* called by evaluateSettlementConditions
releaseRead(p) ==
  /\ At(p, "rel_read")
  /\ SetProc(p, ReleaseRead(proc[p]))
  /\ UNCHANGED << now, tx, events, rail, opsLeft, failuresLeft >>

\* stripe.transfers.create: a new transfer with a fresh id
releaseTransfer(p) ==
  /\ At(p, "rel_transfer")
  /\ rail' = [rail EXCEPT !.transfers = @ + 1]
  /\ SetProc(p, Goto([proc[p] EXCEPT !.l.transferId = rail.transfers + 1],
                     "rel_payout"))
  /\ UNCHANGED << now, tx, events, opsLeft, failuresLeft >>

\* stripe.payouts.create
releasePayout(p) ==
  /\ At(p, "rel_payout")
  /\ rail' = [rail EXCEPT !.payouts = @ + 1]
  /\ SetProc(p, Goto([proc[p] EXCEPT !.l.payoutId = rail.payouts + 1],
                     "rel_write"))
  /\ UNCHANGED << now, tx, events, opsLeft, failuresLeft >>

releaseWrite(p, logged) ==
  /\ At(p, "rel_write")
  /\ tx' = [tx EXCEPT !.status = "released",
                      !.hist = Push(proc[p].l.hist, "released"),
                      !.transferId = proc[p].l.transferId,
                      !.payoutId = proc[p].l.payoutId]
  /\ LogEvent(logged)
  /\ SetProc(p, RetRelease(proc[p], "ok"))
  /\ UNCHANGED << now, rail, opsLeft >>

\* ------------------------------------------------------ refundToBuyer
\* const amountToRefund = refundAmount || escrow.amount: an absent
\* refundAmount and 0 both give the transaction's amount
AmountToRefund(refundAmount, escrow) ==
  IF refundAmount = Absent \/ refundAmount = 0 THEN escrow.amount ELSE refundAmount

\* the refundAmount arguments of a call: none, 0, a partial amount
RefundAmounts == {Absent, 0, PartialRefund}

refundRead(p, refundAmount) ==
  /\ Called(p, "refund")
  /\ SetProc(p, IF RefundRefusal(tx) # ""
                  THEN Ret(New("refund"), RefundRefusal(tx))
                  ELSE Goto([New("refund") EXCEPT
                               !.l.hist = tx.hist,
                               !.l.refundAmount = refundAmount,
                               !.l.amountToRefund = AmountToRefund(refundAmount, tx)],
                            "ref_rail"))
  /\ UNCHANGED << now, tx, events, rail, failuresLeft >>

\* stripe.refunds.create({payment_intent}): a refund against the original
\* capture; the rail rejects (throws on) a refund of a payment it never
\* captured
refundRail(p) ==
  /\ At(p, "ref_rail")
  /\ IF rail.captures > 0
       THEN /\ rail' = [rail EXCEPT !.refunds = @ + 1,
                                    !.refunded = @ + proc[p].l.amountToRefund]
            /\ SetProc(p, Goto(proc[p], "ref_write"))
       ELSE /\ rail' = rail
            /\ SetProc(p, Ret(proc[p], "error"))
  /\ UNCHANGED << now, tx, events, opsLeft, failuresLeft >>

refundWrite(p, logged) ==
  /\ At(p, "ref_write")
  /\ tx' = [tx EXCEPT !.status = "refunded",
                      !.hist = Push(proc[p].l.hist, "refunded")]
  /\ LogEvent(logged)
  /\ SetProc(p, Ret(proc[p], "ok"))
  /\ UNCHANGED << now, rail, opsLeft >>

\* ------------------------------------------------------------ failures
\* The getDocument that opens a server action throws: its catch returns the
\* error (evaluateSettlementConditions: {allConditionsMet: false}).
CallReadFails(p, ops) ==
  /\ \E op \in ops :
       /\ Called(p, op)
       /\ SetProc(p, IF op = "evaluate" THEN RetEvalCaught(New(op))
                                        ELSE Ret(New(op), "error"))
  /\ Outcome(FALSE)
  /\ UNCHANGED << now, tx, events, rail >>

\* The getDocument of a nested call throws: updateCondition swallows it and
\* its caller goes on to log its event; a nested evaluation or release
\* returns its failure to its caller.  The sweep's listDocuments throws: its
\* catch logs and rethrows, the sweep ends without results.
ReadFails(p) ==
  /\ NoneDone
  /\ proc[p].pc \in {"ev_read", "rel_read", "uc_read", "sw_list"}
  /\ Outcome(FALSE)
  /\ SetProc(p, CASE proc[p].pc = "ev_read" -> RetEvalCaught(proc[p])
                  [] proc[p].pc = "rel_read" -> RetRelease(proc[p], "error")
                  [] proc[p].pc = "sw_list" -> Ret(proc[p], "thrown")
                  [] OTHER -> Goto(proc[p], "ev_read"))
  /\ events' = IF proc[p].pc = "uc_read" THEN events + 1 ELSE events
  /\ UNCHANGED << now, tx, rail, opsLeft >>

\* A payment-rail call throws: nothing is executed by the rail
RailFails(p) ==
  /\ NoneDone
  /\ proc[p].pc \in {"cap_rail", "rel_transfer", "rel_payout", "ref_rail"}
  /\ Outcome(FALSE)
  /\ SetProc(p, IF proc[p].pc \in {"rel_transfer", "rel_payout"}
                  THEN RetRelease(proc[p], "error")
                  ELSE Ret(proc[p], "error"))
  /\ UNCHANGED << now, tx, events, rail, opsLeft >>

\* An updateDocument throws: nothing is stored
WriteFails(p) ==
  /\ NoneDone
  /\ proc[p].pc \in {"cap_write", "ship_write", "con_write", "dis_write",
                     "ref_write", "ev_write", "rel_write", "uc_write"}
  /\ Outcome(FALSE)
  /\ SetProc(p, CASE proc[p].pc = "ev_write" -> RetEvalCaught(proc[p])
                  [] proc[p].pc = "rel_write" -> RetRelease(proc[p], "error")
                  [] proc[p].pc = "uc_write" ->
                       Goto([proc[p] EXCEPT !.l.conds = << >>], "ev_read")
                  [] OTHER -> Ret(proc[p], "error"))
  /\ events' = IF proc[p].pc = "uc_write" THEN events + 1 ELSE events
  /\ UNCHANGED << now, tx, rail, opsLeft >>

\* ------------------------------------------------ runEscrowAutoRelease
\* the scheduler starts a sweep (not counted against the calls budget)
sweepCall(p) ==
  /\ At(p, "idle")
  /\ SetProc(p, Goto([New("sweep") EXCEPT !.l.i = 1], "sw_list"))
  /\ UNCHANGED << now, tx, events, rail, opsLeft, failuresLeft >>

\* listDocuments([Query.equal("status", [activeStatuses[i]]),
\* Query.limit(100)]) while others other transactions have that status: at
\* most QueryLimit documents are listed; the transaction is among them
\* (inList) when its status matches, but need not be when more than
\* QueryLimit documents match
Min(a, b) == IF a <= b THEN a ELSE b

sweepList(p, others, inList) ==
  /\ At(p, "sw_list")
  /\ LET matches == tx.status = ActiveStatuses[proc[p].l.i]
         total == others + IF matches THEN 1 ELSE 0
         listed == Min(total, QueryLimit)
     IN /\ inList => matches
        /\ (matches /\ total <= QueryLimit) => inList
        /\ SetProc(p, SweepOn([proc[p] EXCEPT
                        !.l.left = listed - IF inList THEN 1 ELSE 0,
                        !.l.txListed = inList,
                        !.observed.active = @ + total,
                        !.observed.listed = @ + listed]))
  /\ UNCHANGED << now, tx, events, rail, opsLeft, failuresLeft >>

\* the loop body on the transaction: results.processed++, then
\* evaluateSettlementConditions(escrow.$id)
sweepDoc(p) ==
  /\ At(p, "sw_docs")
  /\ proc[p].l.txListed
  /\ SetProc(p, Goto([proc[p] EXCEPT !.l.txListed = FALSE,
                                     !.results.processed = @ + 1],
                     "ev_read"))
  /\ UNCHANGED << now, tx, events, rail, opsLeft, failuresLeft >>

\* the loop body on another listed transaction, one whose conditions are
\* not met: results.processed++, then its evaluation, which returns
\* {allConditionsMet: false} whether it ran (ok) or one of its store calls
\* threw and its catch returned; the detail pushed is "evaluated"
sweepOther(p, ok) ==
  /\ At(p, "sw_docs")
  /\ proc[p].l.left > 0
  /\ Outcome(ok)
  /\ SetProc(p, SweepOn([IF ok THEN proc[p] ELSE SweepFailed(proc[p])
                           EXCEPT !.l.left = @ - 1,
                                  !.results.processed = @ + 1]))
  /\ UNCHANGED << now, tx, events, rail, opsLeft >>

\* ----------------------------------------- route.ts: the cron route
Headers == {"none", "other", "secret"}

\* if (cronSecret) { if (!authHeader || authHeader !== `Bearer ${cronSecret}`)
UnauthorizedWithoutHeader(configured, header) == configured /\ header = "none"
Unauthorized(configured, header) == configured /\ header # "secret"

\* POST: 401 for an unauthorized request, otherwise runAllEscrowCronJobs,
\* whose runEscrowAutoRelease is the sweep (the two jobs after it,
\* updateTrackingStatuses and sendEscrowReminders, only read and log)
POST(p, configured, header) ==
  /\ At(p, "idle")
  /\ LET q == [New("sweep") EXCEPT
                 !.request = [configured |-> configured, header |-> header]]
     IN SetProc(p, IF Unauthorized(configured, header)
                     THEN Ret(q, "unauthorized")
                     ELSE Goto([q EXCEPT !.l.i = 1], "sw_list"))
  /\ UNCHANGED << now, tx, events, rail, opsLeft, failuresLeft >>

\* export async function GET(request) { return POST(request); }
GET(p, configured, header) == POST(p, configured, header)

\* ------------------------------------------------------- specifications
AllOps == {"capture", "ship", "confirm", "dispute", "evaluate", "release", "refund"}

\* the steps of call p; a step that logs an audit event either logs it
\* (ok) or has the event write throw
Calls(p) ==
  \/ Exit(p)
  \/ captureRead(p) \/ captureRail(p) \/ \E ok \in BOOLEAN : captureWrite(p, ok)
  \/ (\E actor \in Actors : shipRead(p, actor)) \/ shipWrite(p)
  \/ (\E actor \in Actors : confirmRead(p, actor)) \/ confirmWrite(p)
  \/ \E ok \in BOOLEAN : updateConditionRead(p, ok)
  \/ \E ok \in BOOLEAN : updateConditionWrite(p, ok)
  \/ (\E actor \in Actors : disputeRead(p, actor))
  \/ \E ok \in BOOLEAN : disputeWrite(p, ok)
  \/ evaluateCall(p) \/ evaluateRead(p) \/ evaluateWrite(p)
  \/ releaseCall(p) \/ releaseRead(p) \/ releaseTransfer(p) \/ releasePayout(p)
  \/ \E ok \in BOOLEAN : releaseWrite(p, ok)
  \/ refundRead(p, Absent) \/ refundRail(p) \/ \E ok \in BOOLEAN : refundWrite(p, ok)
  \/ CallReadFails(p, AllOps) \/ ReadFails(p) \/ RailFails(p) \/ WriteFails(p)

\* concurrent calls: any interleaving of the steps of NProcs calls on a
\* transaction created with its item type's default conditions
Init == InitWith(DefaultLists, MaxOps, MaxFailures)

Next == Tick \/ \E p \in Procs : Calls(p)

Spec == Init /\ [][Next]_vars

\* sequential calls: each call runs to completion before the next starts
InitSeq == InitWith(DefaultLists, MaxSeqOps, MaxFailures)

NextSeq == Tick \/ Calls(1)

SpecSeq == InitSeq /\ [][NextSeq]_vars

\* concurrent evaluateSettlementConditions calls (with the release each may
\* trigger) on a transaction created with default or caller-supplied
\* conditions
EvalCalls(p) ==
  \/ Exit(p)
  \/ evaluateCall(p) \/ evaluateWrite(p)
  \/ releaseRead(p) \/ releaseTransfer(p) \/ releasePayout(p)
  \/ \E ok \in BOOLEAN : releaseWrite(p, ok)
  \/ CallReadFails(p, {"evaluate"}) \/ ReadFails(p) \/ RailFails(p) \/ WriteFails(p)

InitEval == InitWith(DefaultLists \cup CustomLists, MaxEvalOps, MaxFailures)

NextEval == Tick \/ \E p \in Procs : EvalCalls(p)

SpecEval == InitEval /\ [][NextEval]_vars

\* the marketplace flow with the scheduler running: buyer and seller calls
\* (call 1) beside the periodic sweep (call 2), no call throwing.  The
\* scheduler fires again and again, every started call runs on to its
\* return, and time passes.
UserStarts(p) ==
  captureRead(p) \/ shipRead(p, "seller") \/ confirmRead(p, "buyer")

Continues(p) ==
  \/ Exit(p)
  \/ captureRail(p) \/ captureWrite(p, TRUE)
  \/ shipWrite(p) \/ confirmWrite(p)
  \/ updateConditionRead(p, TRUE) \/ updateConditionWrite(p, TRUE)
  \/ evaluateRead(p) \/ evaluateWrite(p)
  \/ releaseRead(p) \/ releaseTransfer(p) \/ releasePayout(p)
  \/ releaseWrite(p, TRUE)
  \/ sweepList(p, 0, tx.status = ActiveStatuses[proc[p].l.i]) \/ sweepDoc(p)

InitLive == InitWith(DefaultLists, MaxLiveOps, 0)

NextLive == Tick \/ UserStarts(1) \/ sweepCall(2) \/ \E p \in Procs : Continues(p)

SpecLive ==
  /\ InitLive /\ [][NextLive]_vars
  /\ WF_vars(Tick)
  /\ WF_vars(sweepCall(2))
  /\ \A p \in Procs : WF_vars(Continues(p))

\* sequential calls on a transaction for which a dispute-period deadline
\* may be stored
StoredDeadlines == {Absent, 1, 2}

InitDispute == InitFrom(DefaultLists, StoredDeadlines, MaxDisputeOps, MaxFailures)

SpecDispute == InitDispute /\ [][NextSeq]_vars

\* creation, then capture and refund calls, each run to completion before
\* the next
CreateOutcomes == {"ok", "early", "unstored", "unlogged"}

CreateCalls(p) ==
  \/ Exit(p)
  \/ \E amount \in Amounts, conds \in CreateConditions(now),
        sellerVerified \in BOOLEAN, outcome \in CreateOutcomes :
          createEscrowTransaction(p, amount, conds, sellerVerified, outcome)
  \/ captureRead(p) \/ captureRail(p) \/ \E ok \in BOOLEAN : captureWrite(p, ok)
  \/ (\E refundAmount \in RefundAmounts : refundRead(p, refundAmount))
  \/ refundRail(p) \/ \E ok \in BOOLEAN : refundWrite(p, ok)
  \/ CallReadFails(p, {"capture", "refund"}) \/ RailFails(p) \/ WriteFails(p)

InitCreate ==
  /\ now = 0
  /\ tx = NoDocument
  /\ events = 0
  /\ rail = NoRail
  /\ proc = [p \in Procs |-> IdleProc]
  /\ opsLeft = MaxCreateOps
  /\ failuresLeft = MaxFailures

NextCreate == Tick \/ CreateCalls(1)

SpecCreate == InitCreate /\ [][NextCreate]_vars

\* evaluateCondition on every kind of stored condition: each type with and
\* without the config it decides on, stored met or not met, on a captured
\* transaction in each status the evaluator looks at, with or without
\* shipping details and their actualDelivery
ConditionShapes ==
  { TimeCond(Absent), TimeCond(1), ConfirmCond, DeliveryCond, CustomTypeCond,
    MilestoneCond("none"), MilestoneCond("open"), MilestoneCond("complete"),
    InspectionCond(Absent), InspectionCond(1) }
  \cup { [TrackingCond EXCEPT !.trackingNumber = n, !.deliveryConfirmed = d] :
           n \in BOOLEAN, d \in BOOLEAN }
  \cup { SignatureCond(b, s) : b \in BOOLEAN, s \in BOOLEAN }

StoredConditions ==
  { [c EXCEPT !.isMet = m, !.metAt = IF m THEN 0 ELSE Absent] :
      c \in ConditionShapes, m \in BOOLEAN }

StoredLists ==
  { << c >> : c \in StoredConditions }
  \cup { << c, SignatureCond(TRUE, TRUE) >> : c \in StoredConditions }

StatusPaths ==
  { << "pending_payment", "payment_received" >>,
    << "pending_payment", "payment_received", "shipped" >>,
    << "pending_payment", "payment_received", "shipped", "confirmed" >>,
    << "pending_payment", "payment_received", "shipped", "disputed" >> }

StoredDocument(conds, hist, delivered) ==
  [NewTransaction(conds) EXCEPT !.status = hist[Len(hist)],
                                !.hist = hist,
                                !.chargeId = 1,
                                !.shipped = Len(hist) > 2,
                                !.actualDelivery = Len(hist) > 2 /\ delivered]

InitCond ==
  /\ now = 0
  /\ \E conds \in StoredLists, hist \in StatusPaths, delivered \in BOOLEAN :
       /\ tx = StoredDocument(conds, hist, delivered)
       /\ events = Len(hist)
  /\ rail = [NoRail EXCEPT !.intents = 1, !.captures = 1]
  /\ proc = [p \in Procs |-> IdleProc]
  /\ opsLeft = MaxCondOps
  /\ failuresLeft = MaxFailures

NextCond == Tick \/ EvalCalls(1)

SpecCond == InitCond /\ [][NextCond]_vars

\* the scheduler's sweeps, one after the other, over a store that holds the
\* transaction (captured, in any status of StatusPaths) and, in each active
\* status, no or more than QueryLimit other transactions.  Every
\* call the sweep awaits returns or throws.
OtherCounts == {0, QueryLimit + MaxOverLimit}

SweepCalls(p) ==
  \/ Exit(p)
  \/ sweepCall(p)
  \/ \E others \in OtherCounts, inList \in BOOLEAN : sweepList(p, others, inList)
  \/ sweepDoc(p)
  \/ \E ok \in BOOLEAN : sweepOther(p, ok)
  \/ evaluateRead(p) \/ evaluateWrite(p)
  \/ releaseRead(p) \/ releaseTransfer(p) \/ releasePayout(p)
  \/ \E ok \in BOOLEAN : releaseWrite(p, ok)
  \/ ReadFails(p) \/ RailFails(p) \/ WriteFails(p)

InitSweep ==
  /\ now \in {0, MaxTime}
  /\ \E conds \in DefaultLists, hist \in StatusPaths :
       /\ tx = StoredDocument(conds, hist, FALSE)
       /\ events = Len(hist)
  /\ rail = [NoRail EXCEPT !.intents = 1, !.captures = 1]
  /\ proc = [p \in Procs |-> IdleProc]
  /\ opsLeft = 0
  /\ failuresLeft = MaxFailures

NextSweep == SweepCalls(1)

SpecSweep == InitSweep /\ [][NextSweep]_vars /\ WF_vars(NextSweep)

\* requests to the cron route, one after the other, with CRON_SECRET set or
\* not and any Authorization header, on a store that holds the transaction
\* alone
RouteCalls(p) ==
  \/ Exit(p)
  \/ \E configured \in BOOLEAN, header \in Headers : POST(p, configured, header)
  \/ \E configured \in BOOLEAN, header \in Headers : GET(p, configured, header)
  \/ sweepList(p, 0, tx.status = ActiveStatuses[proc[p].l.i]) \/ sweepDoc(p)
  \/ evaluateRead(p) \/ evaluateWrite(p)
  \/ releaseRead(p) \/ releaseTransfer(p) \/ releasePayout(p)
  \/ \E ok \in BOOLEAN : releaseWrite(p, ok)
  \/ ReadFails(p) \/ RailFails(p) \/ WriteFails(p)

NextRoute == Tick \/ RouteCalls(1)

SpecRoute == InitSweep /\ [][NextRoute]_vars

\* ---------------------------------------------------------- properties
Quiescent == \A p \in Procs : proc[p].pc = "idle"

NoFailureYet == failuresLeft = MaxFailures

Terminal == {"released", "refunded"}

\* call p performs its evaluation read in this step
EvaluationReadBy(p) == proc[p].pc # "ev_write" /\ proc'[p].pc = "ev_write"

AllRequired(conds) == \A i \in 1..Len(conds) : conds[i].required

\* the conditions as created: isMet and metAt as at creation
AsCreated(conds) ==
  [i \in 1..Len(conds) |-> [conds[i] EXCEPT !.isMet = FALSE, !.metAt = Absent]]

IsDefaultOf(itemType) ==
  AsCreated(tx.conds) = getDefaultConditionsForItemType(itemType, 0)

\* C1: two evaluateSettlementConditions calls running concurrently on a
\* transaction whose payment was captured, no call throwing, issue at most
\* one transfer to the seller in every interleaving (exactly one release is
\* executed when the conditions are all met).
C1_ExactlyOneReleasePerTransaction ==
  ( /\ NoFailureYet
    /\ tx.chargeId # Absent
    /\ \A p \in Procs : proc[p].op = "evaluate" )
  => rail.transfers <= 1

\* C2: under every interleaving of release, refund and evaluation calls on
\* a transaction whose payment was captured, no call throwing, at most one
\* fund movement is executed: never a transfer and a refund, and never two
\* transfers.
\* (Two refunds are left out: whether the rail executes a second refund
\* depends on the refunded amounts.)
C2_AtMostOneFundMovement ==
  (NoFailureYet /\ tx.chargeId # Absent) =>
    /\ rail.transfers <= 1
    /\ ~(rail.transfers >= 1 /\ rail.refunds >= 1)

\* C3: with each call run to completion before the next, once the status
\* is released or refunded no later call changes the status or has the
\* rail execute a capture, transfer, payout or refund.
C3_TerminalIsIdempotent ==
  [][tx.status \in Terminal => (tx'.status = tx.status /\ rail' = rail)]_vars

\* C3 witness: a release call made on a released transaction has returned
\* its refusal.
C3_Witness ==
  /\ tx.status = "released"
  /\ proc[1].pc = "done" /\ proc[1].op = "release"
  /\ proc[1].res = "already_done"

\* C4: under any interleaving, once the stored status is released or
\* refunded no operation writes another status over it.
C4_TerminalNeverOverwritten ==
  [][tx.status \in Terminal => tx'.status = tx.status]_vars

\* C5: when a release on a transaction whose payment was captured has
\* transferred but its payout failed, then once the call has returned the transfer id is stored, the status is not
\* released, a release call reports failure, and no second transfer is
\* issued by a later call.
C5_PartialReleaseKeepsTransfer ==
  ( /\ tx.chargeId # Absent
    /\ rail.transfers > rail.payouts
    /\ proc[1].pc \in {"idle", "done"} ) =>
    /\ tx.transferId # Absent
    /\ tx.status # "released"
    /\ rail.transfers = 1
    /\ (proc[1].pc = "done" /\ proc[1].op = "release") => proc[1].res # "ok"

\* C6: an evaluation whose list has a condition without required reports
\* allConditionsMet as soon as one condition without required is met and
\* every required condition is met.
C6_AnyUnrequiredSuffices ==
  \A p \in Procs :
    proc[p].pc = "ev_write" =>
      LET c == proc[p].l.conds
      IN ( /\ \E i \in 1..Len(c) : ~c[i].required /\ c[i].isMet
           /\ \A i \in 1..Len(c) : c[i].required => c[i].isMet )
         => proc[p].l.allMet

\* C7: an evaluation of a list in which every condition is required
\* computes, and when it returns without a store error reports,
\* allConditionsMet = TRUE exactly when every condition of the list is met
\* (none is unmet); it never reports TRUE otherwise.
C7_AllRequiredIsConjunction ==
  \A p \in Procs :
    /\ (proc[p].pc = "ev_write" /\ AllRequired(proc[p].l.conds)) =>
         (proc[p].l.allMet <=>
            \A i \in 1..Len(proc[p].l.conds) : proc[p].l.conds[i].isMet)
    /\ (proc[p].pc = "done" /\ proc[p].op = "evaluate" /\ AllRequired(tx.conds)) =>
         /\ proc[p].rAllMet => proc[p].rUnmet = {}
         /\ proc[p].res = "ok" => (proc[p].rAllMet <=> proc[p].rUnmet = {})

\* C7 witness: an evaluation of two required conditions, both met, has
\* returned allConditionsMet = TRUE.
C7_Witness ==
  \E p \in Procs :
    /\ proc[p].pc = "done" /\ proc[p].op = "evaluate" /\ proc[p].res = "ok"
    /\ Len(tx.conds) >= 2 /\ AllRequired(tx.conds)
    /\ proc[p].rAllMet

\* C8: the default conditions of digital_goods are buyer_confirmation, then
\* time_based due DigitalAutoReleaseDays after creation; an evaluation at
\* creation time yields allConditionsMet = FALSE and one later than the
\* deadline yields TRUE, whatever the buyer did.
C8_DigitalGoodsAutoRelease ==
  [][\A p \in Procs :
       (EvaluationReadBy(p) /\ IsDefaultOf("digital_goods")) =>
         /\ Len(tx.conds) = 2
         /\ tx.conds[1].type = "buyer_confirmation"
         /\ tx.conds[2].type = "time_based"
         /\ tx.conds[2].autoReleaseAt = DigitalAutoReleaseDays
         /\ now = 0 => ~proc'[p].l.allMet
         /\ now > DigitalAutoReleaseDays => proc'[p].l.allMet]_vars

IsPhysicalGoods == IsDefaultOf("physical_goods")

\* C9: a physical_goods transaction with default conditions whose payment
\* was captured, that was shipped with tracking and whose receipt the buyer
\* confirmed is eventually released (fair scheduler, no call throwing, no
\* dispute).
C9_ConfirmedPhysicalGoodsReleased ==
  (IsPhysicalGoods /\ tx.status = "confirmed") ~> (tx.status = "released")

\* C10: an evaluation at clock value now makes a time_based condition with
\* a stored autoReleaseAt met exactly when now >= autoReleaseAt, stores
\* that value, and no step changes a stored autoReleaseAt.
C10_TimeBasedMetAtDeadline ==
  [][\A p \in Procs :
       /\ EvaluationReadBy(p) =>
            \A i \in 1..Len(tx.conds) :
              (tx.conds[i].type = "time_based" /\ tx.conds[i].autoReleaseAt # Absent)
                => (proc'[p].l.conds[i].isMet <=> now >= tx.conds[i].autoReleaseAt)
       /\ (proc[p].pc = "ev_write" /\ proc'[p].pc # "ev_write"
             /\ failuresLeft' = failuresLeft) =>
            \A i \in 1..Len(tx'.conds) :
              tx'.conds[i].isMet = proc[p].l.conds[i].isMet
       /\ Len(tx'.conds) = Len(tx.conds)
       /\ \A i \in 1..Len(tx.conds) :
            tx'.conds[i].autoReleaseAt = tx.conds[i].autoReleaseAt]_vars

\* C10 witness: an evaluation at or after the deadline has found met a
\* time_based condition that is stored as not met.
C10_Witness ==
  \E p \in Procs :
    /\ proc[p].pc = "ev_write"
    /\ \E i \in 1..Len(tx.conds) :
         /\ tx.conds[i].type = "time_based"
         /\ tx.conds[i].autoReleaseAt # Absent
         /\ ~tx.conds[i].isMet
         /\ proc[p].l.conds[i].isMet
         /\ now >= tx.conds[i].autoReleaseAt

\* C11: the stored platformFee is round(A * p1 / 100 + f1), the stored
\* sellerAmount is A - platformFee - round(A * p2 / 100 + f2) (so the three
\* sum to A), for A = 45000 they are 1155 and 42510, and no later step
\* changes amount, platformFee or sellerAmount.
C11_FeesSumToAmount ==
  [][/\ tx'.status # "none" =>
          /\ tx'.platformFee =
               FeeRoundedExactly(tx'.amount, PlatformFeePerMille, PlatformFeeFixed)
          /\ tx'.sellerAmount = tx'.amount - tx'.platformFee
               - FeeRoundedExactly(tx'.amount, StripeFeePerMille, StripeFeeFixed)
          /\ tx'.amount = 45000 =>
               (tx'.platformFee = 1155 /\ tx'.sellerAmount = 42510)
     /\ tx.status # "none" =>
          /\ tx'.amount = tx.amount
          /\ tx'.platformFee = tx.platformFee
          /\ tx'.sellerAmount = tx.sellerAmount]_vars

Disputable == {"shipped", "in_transit", "delivered", "confirmed"}

\* call 1 starts an openDispute whose getDocument succeeds and whose
\* caller is the buyer, on a disputable transaction with a stored deadline
DisputeReadByBuyer ==
  /\ proc[1].pc = "idle"
  /\ proc'[1].op = "dispute"
  /\ proc'[1].actor = "buyer"
  /\ proc'[1].res # "error"
  /\ tx.status \in Disputable
  /\ tx.disputePeriodEndsAt # Absent

\* C12: openDispute by the buyer on a disputable transaction with a stored
\* dispute-period deadline goes on to store status disputed and return
\* success when called before the deadline; called after the deadline it
\* returns the validation error and leaves the transaction unchanged.
C12_DisputeOnlyBeforeDeadline ==
  [][/\ DisputeReadByBuyer =>
          /\ now < tx.disputePeriodEndsAt =>
               (proc'[1].pc = "dis_write" /\ tx' = tx)
          /\ now > tx.disputePeriodEndsAt =>
               (proc'[1].pc = "done" /\ proc'[1].res = "expired" /\ tx' = tx)
     /\ (proc[1].pc = "dis_write" /\ proc'[1].pc = "done") =>
          IF proc'[1].res = "ok"
            THEN tx'.status = "disputed"
            ELSE tx' = tx]_vars

\* C12 witness: a dispute opened after the stored deadline has returned
\* the validation error, the status still disputable.
C12_Witness ==
  /\ proc[1].pc = "done" /\ proc[1].op = "dispute" /\ proc[1].res = "expired"
  /\ tx.status \in Disputable
  /\ now > tx.disputePeriodEndsAt

\* C13: an evaluateSettlementConditions call that read status released,
\* no store or rail call having thrown, returns allConditionsMet = TRUE and
\* released = FALSE without entering releaseFundsToSeller or touching the
\* rail.
C13_EvaluateReleasedIsNoOp ==
  [][( /\ proc[1].op = "evaluate"
       /\ proc[1].pc = "ev_write"
       /\ proc[1].l.status = "released"
       /\ proc'[1].pc # "ev_write"
       /\ NoFailureYet
       /\ failuresLeft' = failuresLeft )
     => /\ proc'[1].pc = "done"
        /\ proc'[1].rAllMet
        /\ ~proc'[1].rReleased
        /\ rail' = rail]_vars

\* C14: while the stored status is disputed, no call issues a transfer
\* from a release that an evaluation triggered (an evaluate call, the
\* evaluation ending markAsShipped or confirmReceipt, or the sweep), no
\* store or rail call having thrown.
C14_NoEvaluationReleaseWhileDisputed ==
  [][\A p \in Procs :
       ( /\ NoFailureYet
         /\ tx.status = "disputed"
         /\ proc[p].pc = "rel_transfer"
         /\ rail'.transfers > rail.transfers )
       => proc[p].op = "release"]_vars

\* call p starts one of the guarded lifecycle actions and its getDocument
\* succeeds
GuardedCallBy(p) ==
  /\ proc[p].pc = "idle"
  /\ proc'[p].pc # "idle"
  /\ proc'[p].op \in {"capture", "ship", "confirm", "dispute"}
  /\ proc'[p].res # "error"

\* C15: markAsShipped by another actor than the seller, and confirmReceipt
\* or openDispute by another actor than the buyer, return the
\* authorization error; capture, ship, confirm and dispute called in a
\* status outside their source states return the invalid-state error; and
\* a call returning either error leaves the transaction, the events and
\* the rail unchanged.
C15_RefusalsChangeNothing ==
  [][\A p \in Procs :
       GuardedCallBy(p) =>
         LET q == proc'[p]
             authorized ==
               CASE q.op = "ship" -> q.actor = "seller"
                 [] q.op \in {"confirm", "dispute"} -> q.actor = "buyer"
                 [] OTHER -> TRUE
             sources ==
               CASE q.op = "capture" -> {"pending_payment"}
                 [] q.op = "ship" -> {"payment_received"}
                 [] q.op = "confirm" -> {"shipped", "in_transit", "delivered"}
                 [] OTHER -> {"shipped", "in_transit", "delivered", "confirmed"}
         IN /\ ~authorized => q.res = "unauthorized"
            /\ (authorized /\ tx.status \notin sources) => q.res = "invalid_state"
            /\ q.res \in {"unauthorized", "invalid_state"} =>
                 /\ q.pc = "done"
                 /\ tx' = tx /\ events' = events /\ rail' = rail]_vars

\* C15 witness: confirmReceipt called by the seller on a shipped
\* transaction has returned the authorization error.
C15_Witness ==
  \E p \in Procs :
    /\ proc[p].pc = "done" /\ proc[p].op = "confirm"
    /\ proc[p].actor = "seller" /\ proc[p].res = "unauthorized"
    /\ tx.status = "shipped"

\* C16: createEscrowTransaction creates no transaction record for an
\* amount below minTransactionAmount or above maxTransactionAmount: every
\* stored transaction's amount lies within the configured bounds.
C16_AmountWithinConfiguredBounds ==
  tx.status # "none" =>
    /\ tx.amount >= MinTransactionAmount
    /\ tx.amount <= MaxTransactionAmount

\* C17: with each call run to completion before the next, whenever no
\* call is running the transaction has one audit event per status-history
\* entry (the creation's and one per status change), also after an event
\* write has thrown.
C17_OneEventPerTransition ==
  Quiescent => events = Len(tx.hist)

IsPrefix(a, b) == Len(a) <= Len(b) /\ SubSeq(b, 1, Len(a)) = a

\* C18: under any interleaving the stored status history only grows at its
\* end: the history before a step is a prefix of the history after it.
C18_HistoryAppendOnly ==
  [][IsPrefix(tx.hist, tx'.hist)]_vars

\* the transition table
Edge(from, to) ==
  \/ from = "pending_payment" /\ to = "payment_received"
  \/ from = "payment_received" /\ to = "shipped"
  \/ from \in {"shipped", "in_transit", "delivered"} /\ to = "confirmed"
  \/ from \in {"shipped", "in_transit", "delivered", "confirmed"} /\ to = "disputed"
  \/ from \notin {"released", "refunded", "cancelled"} /\ to = "released"
  \/ from \notin {"released", "refunded", "cancelled"} /\ to = "refunded"

\* C19: under any interleaving every change of the stored status follows
\* an edge of the transition table; in particular the status never moves
\* backward and never leaves released, refunded or cancelled.
C19_StatusFollowsTransitionTable ==
  [][tx'.status # tx.status => Edge(tx.status, tx'.status)]_vars

\* C20: for a transaction whose payment was captured, whenever no release
\* is in progress (each call run to completion before the next), every
\* transfer made to the seller's account has its payout: the rail has
\* executed as many payouts as transfers.
C20_NoTransferWithoutPayout ==
  (tx.chargeId # Absent /\ proc[1].pc \in {"idle", "done"}) =>
    rail.transfers = rail.payouts

\* C24: with each call run to completion before the next, a transaction
\* whose payment was captured is paid out at most once: after a release
\* whose transfer and payout succeeded and whose store write threw, no
\* later release or evaluation issues a second transfer and payout.
C24_FailedReleaseWriteSafeToRetry ==
  tx.chargeId # Absent => rail.payouts <= 1

\* C27: with each call run to completion before the next and no store or
\* rail call having thrown, a condition stored as met is never stored as
\* not met by a later step, whatever status changes happen in between.
C27_IsMetNeverFlipsBack ==
  [][NoFailureYet =>
       \A i \in 1..Len(tx.conds) :
         tx.conds[i].isMet => tx'.conds[i].isMet]_vars

\* C28: under any interleaving a condition's stored metAt, once set, is
\* never changed or cleared by a later store write (of an evaluation or of
\* a condition update), also when the condition is no longer met.
C28_MetAtWrittenOnce ==
  [][\A i \in 1..Len(tx.conds) :
       tx.conds[i].metAt # Absent => tx'.conds[i].metAt = tx.conds[i].metAt]_vars

\* call p stores the result of its evaluation in this step
EvaluationWriteBy(p) ==
  /\ proc[p].pc = "ev_write"
  /\ proc'[p].pc # "ev_write"
  /\ failuresLeft' = failuresLeft

\* C29: under any interleaving every successful evaluation stores its
\* evaluated condition list together with its allConditionsMet, no other
\* step writes the stored allConditionsMet, and the stored allConditionsMet
\* always equals the aggregation of the stored conditions' isMet.
C29_StoredFlagIsAggregation ==
  /\ [](tx.allConditionsMet = AllMet(tx.conds))
  /\ [][/\ \A p \in Procs :
            EvaluationWriteBy(p) =>
              /\ tx'.conds = proc[p].l.conds
              /\ tx'.allConditionsMet = AllMet(proc[p].l.conds)
        /\ tx'.allConditionsMet # tx.allConditionsMet =>
             \E p \in Procs : EvaluationWriteBy(p)]_vars

\* call p enters releaseFundsToSeller in this step (called as a server
\* action or by an evaluation) and its getDocument succeeds
ReleaseReadBy(p) ==
  /\ \/ proc[p].pc = "idle" /\ proc'[p].pc # "idle" /\ proc'[p].op = "release"
     \/ proc[p].pc = "rel_read" /\ proc'[p].pc # "rel_read"
  /\ failuresLeft' = failuresLeft

\* C30: under any interleaving releaseFundsToSeller, entered while the
\* stored allConditionsMet is false or the stored status is released or
\* refunded, returns failure (an evaluation that called it returns
\* released = FALSE) in the step of its read, without a rail call, a change
\* of the transaction or an audit event.
C30_ReleaseRefusalsChangeNothing ==
  [][\A p \in Procs :
       ( /\ ReleaseReadBy(p)
         /\ ~tx.allConditionsMet \/ tx.status \in Terminal )
       => /\ proc'[p].pc \in {"done", "sw_list", "sw_docs"}
          /\ proc'[p].op = "release" =>
               proc'[p].res = IF ~tx.allConditionsMet THEN "not_met"
                                                      ELSE "already_done"
          /\ proc'[p].pc = "done" /\ proc'[p].op = "evaluate" => ~proc'[p].rReleased
          /\ tx' = tx /\ rail' = rail /\ events' = events]_vars

\* C30 witness: a release call on a captured transaction whose stored
\* allConditionsMet is false has returned the conditions-not-met failure
\* with nothing transferred.
C30_Witness ==
  \E p \in Procs :
    /\ proc[p].pc = "done" /\ proc[p].op = "release"
    /\ proc[p].res = "not_met"
    /\ tx.chargeId # Absent /\ ~tx.allConditionsMet
    /\ rail.transfers = 0

\* C25: every evaluation sets the isMet of each condition with complete
\* config to exactly its type's predicate on the document read and the
\* clock: tracking_confirmation iff tracking number and deliveryConfirmed;
\* buyer_confirmation iff the status is confirmed; delivery_confirmation
\* (shipping details stored) iff they hold an actualDelivery;
\* milestone_based (milestones given) iff every milestone is completed;
\* inspection_period (deadline given) iff the deadline is reached and the
\* status is not disputed; dual_signature iff both parties signed; a
\* condition of any other type but time_based is not met.
C25_IsMetIsTypePredicate ==
  [][\A p \in Procs :
       EvaluationReadBy(p) =>
         \A i \in 1..Len(tx.conds) :
           LET c == tx.conds[i]
               isMet == proc'[p].l.conds[i].isMet
           IN CASE c.type = "tracking_confirmation" ->
                     isMet <=> (c.trackingNumber /\ c.deliveryConfirmed)
                [] c.type = "buyer_confirmation" ->
                     isMet <=> tx.status = "confirmed"
                [] c.type = "delivery_confirmation" ->
                     tx.shipped => (isMet <=> tx.actualDelivery)
                [] c.type = "milestone_based" ->
                     c.milestones # "none" => (isMet <=> c.milestones = "complete")
                [] c.type = "inspection_period" ->
                     c.inspectionDeadline # Absent =>
                       (isMet <=> (now >= c.inspectionDeadline /\ tx.status # "disputed"))
                [] c.type = "dual_signature" ->
                     isMet <=> (c.buyerSigned /\ c.sellerSigned)
                [] c.type = "time_based" -> TRUE
                [] OTHER -> ~isMet]_vars

\* C25 witness: an evaluation has read a disputed transaction after the
\* deadline of its inspection_period condition, stored as met, and
\* evaluated the condition as not met.
C25_Witness ==
  \E p \in Procs :
    /\ proc[p].pc = "ev_write"
    /\ tx.status = "disputed"
    /\ tx.conds[1].type = "inspection_period"
    /\ tx.conds[1].inspectionDeadline # Absent
    /\ tx.conds[1].inspectionDeadline <= now
    /\ tx.conds[1].isMet
    /\ ~proc[p].l.conds[1].isMet

\* condition c lacks the config its type decides on (escrow: the document)
LacksConfig(c, escrow) ==
  \/ c.type = "time_based" /\ c.autoReleaseAt = Absent
  \/ c.type = "inspection_period" /\ c.inspectionDeadline = Absent
  \/ c.type = "milestone_based" /\ c.milestones = "none"
  \/ c.type = "delivery_confirmation" /\ ~escrow.shipped

SweepReturned(p) ==
  proc[p].op = "sweep" /\ proc[p].pc = "done" /\ proc[p].res = "ok"

\* C21: a sweep that returns has processed every transaction that was in
\* an active status when the sweep queried that status, however many
\* transactions share the status: its processed count is the number of
\* those transactions.
C21_SweepEvaluatesEveryActive ==
  \A p \in Procs :
    SweepReturned(p) => proc[p].results.processed = proc[p].observed.active

\* C22: in a sweep a failure while processing one transaction (a store
\* read, store write or rail call of its evaluation throwing) does not end
\* the sweep: a sweep ends without results only when its own listDocuments
\* throws; a sweep that returns has passed every document its queries
\* listed to the evaluation; and every started sweep ends.
C22_SweepToleratesFailures ==
  /\ [][\A p \in Procs :
          ( /\ proc[p].op = "sweep" /\ proc[p].pc # "done"
            /\ proc'[p].pc = "done" /\ proc'[p].res # "ok" )
          => proc[p].pc = "sw_list"]_vars
  /\ [](\A p \in Procs :
          SweepReturned(p) => proc[p].results.processed = proc[p].observed.listed)
  /\ \A p \in Procs : (proc[p].op = "sweep") ~> (proc[p].pc = "done")

\* C22 witness: a sweep has returned its results after the evaluation of
\* one of the transactions it listed threw, having processed every listed
\* document, more than one.
C22_Witness ==
  \E p \in Procs :
    /\ SweepReturned(p)
    /\ proc[p].observed.failed = 1
    /\ proc[p].observed.listed > 1
    /\ proc[p].results.processed = proc[p].observed.listed

\* C23: a sweep that returns reports in its errors count, and with as many
\* error detail entries, the number of listed transactions whose
\* evaluation threw (its store read, its store write or its release).
C23_SweepCountsFailedEvaluations ==
  \A p \in Procs :
    SweepReturned(p) =>
      /\ proc[p].results.errors = proc[p].observed.failed
      /\ proc[p].results.errorDetails = proc[p].observed.failed

\* C31: under any interleaving each stored payment-linkage identifier of
\* a transaction whose payment was captured (charge id, transfer id, payout
\* id), once stored, is never cleared and never replaced by another value.
C31_PaymentIdsWrittenOnce ==
  [][tx.chargeId # Absent =>
       /\ tx'.chargeId = tx.chargeId
       /\ tx.transferId # Absent => tx'.transferId = tx.transferId
       /\ tx.payoutId # Absent => tx'.payoutId = tx.payoutId]_vars

C33_RefundsRequestedAmount ==
  [][\A p \in Procs :
       /\ (proc[p].pc = "ref_rail" /\ rail'.refunds # rail.refunds) =>
            /\ rail'.refunds = rail.refunds + 1
            /\ rail'.refunded - rail.refunded =
                 IF proc[p].l.refundAmount = Absent THEN tx.amount
                                                    ELSE proc[p].l.refundAmount
       /\ (proc[p].pc = "ref_write" /\ proc'[p].res = "ok") =>
            tx'.status = "refunded"]_vars

\* C34: with CRON_SECRET configured, a request to the cron route whose
\* Authorization header is missing or is not the secret's bearer value is
\* answered 401 in the step it arrives: it never enters the sweep and
\* leaves the transaction, the rail and the events unchanged.
C34_UnauthorizedCronRunsNothing ==
  /\ [](\A p \in Procs :
          (proc[p].request.configured /\ proc[p].request.header # "secret") =>
            /\ proc[p].pc = "done"
            /\ proc[p].res = "unauthorized"
            /\ proc[p].results = NoResults /\ proc[p].observed = NoneObserved)
  /\ [][\A p \in Procs :
          (proc'[p].request.configured /\ proc'[p].request.header # "secret") =>
            (tx' = tx /\ rail' = rail /\ events' = events)]_vars

\* C34 witness: a request with another Authorization header than the
\* configured secret's has been answered 401 while the transaction was due
\* for release (active status, its time_based condition's deadline passed).
C34_Witness ==
  \E p \in Procs :
    /\ proc[p].pc = "done" /\ proc[p].res = "unauthorized"
    /\ proc[p].request.configured /\ proc[p].request.header = "other"
    /\ IsDefaultOf("subscription")
    /\ tx.status = "payment_received"
    /\ now >= tx.conds[1].autoReleaseAt
    /\ rail.transfers = 0

\* C35: a transaction created with an empty condition list is never
\* stored or reported as allConditionsMet by an evaluation and never
\* released: no transfer is issued for it.
C35_EmptyConditionsNeverRelease ==
  Len(tx.conds) = 0 =>
    /\ ~tx.allConditionsMet
    /\ tx.status # "released"
    /\ rail.transfers = 0
    /\ \A p \in Procs : ~proc[p].rAllMet /\ ~proc[p].rReleased

\* C36: no funds move to the seller for a transaction whose payment was
\* never captured: whenever a transfer or a payout has been issued, the
\* transaction's charge id is stored.
C36_NoTransferBeforeCapture ==
  (rail.transfers > 0 \/ rail.payouts > 0) => tx.chargeId # Absent

\* C37: under any interleaving the stored status is the status of the
\* last entry of the stored status history.
C37_StatusIsLastHistoryEntry ==
  tx.status = tx.hist[Len(tx.hist)]

\* C37 witness: a refund whose read preceded a capture's write has stored
\* its status and its own history over the capture's: the stored history
\* lost the payment_received entry and still ends with the stored status.
C37_Witness ==
  /\ tx.status = "refunded"
  /\ tx.hist = << "pending_payment", "refunded" >>
  /\ tx.chargeId # Absent

\* C38: under any interleaving, no store or rail call having thrown, a
\* config field that updateCondition stored (the tracking number recorded
\* by markAsShipped) is never removed from the stored condition by a later
\* write.
C38_ConditionUpdateNeverLost ==
  [][NoFailureYet =>
       \A i \in 1..Len(tx.conds) :
         tx.conds[i].trackingNumber => tx'.conds[i].trackingNumber]_vars

C40_SellerAmountNonNegative ==
  tx.status # "none" =>
    /\ tx.sellerAmount >= 0
    /\ platformFee(tx.amount) + stripeFee(tx.amount) <= tx.amount

====
